---- MODULE Spec2Model ----
(***************************************************************************)
(* Return calculations of the wheel-strategy analyser                       *)
(* (src/src/calculator.py, src/src/utils.py).                               *)
(*                                                                         *)
(* Python floats are modelled as exact rationals [n, d] in lowest terms.    *)
(* A power with a non-integer exponent has no rational value: it is kept    *)
(* as the term [base, days] standing for                                    *)
(* ((base ** (365.0 / days)) - 1) * 100.  Rounding and overflow of IEEE     *)
(* doubles are outside the model.  A Python exception is the outcome        *)
(* [status |-> "raise", exc |-> <exception class>].                         *)
(***************************************************************************)
EXTENDS Integers, FiniteSets, Sequences, TLC

VARIABLES risk_free_rate, op, args, result, calls, screening_criteria

vars == <<risk_free_rate, op, args, result, calls, screening_criteria>>

-----------------------------------------------------------------------------
(* Bounds of the explored inputs *)

\* prices, strikes, premiums and cost bases are k/2 for k in -1 .. MaxPriceHalves
MaxPriceHalves == 3

\* the same for the arguments of a wheel cycle: k/2 for k in -1 .. MaxWheelHalves
MaxWheelHalves == 2

\* the number of times a call is made on one calculator
MaxCalls == 2

-----------------------------------------------------------------------------
(* Float arithmetic as exact rationals *)

Abs(x) == IF x < 0 THEN -x ELSE x

RECURSIVE GCD(_, _)
GCD(a, b) == IF b = 0 THEN a ELSE GCD(b, a % b)

\* the float with value n/d (d # 0), in lowest terms with a positive denominator
Rat(n, d) ==
    LET s == IF d < 0 THEN -1 ELSE 1
        g == GCD(Abs(n), Abs(d))
    IN  [n |-> (s * n) \div g, d |-> (s * d) \div g]

\* an int used in float arithmetic
FromInt(i) == [n |-> i, d |-> 1]

Zero == FromInt(0)
One == FromInt(1)
Hundred == FromInt(100)

IsRat(x) == DOMAIN x = {"n", "d"}

Add(x, y) == Rat(x.n * y.d + y.n * x.d, x.d * y.d)
Sub(x, y) == Rat(x.n * y.d - y.n * x.d, x.d * y.d)
Mul(x, y) == Rat(x.n * y.n, x.d * y.d)
\* x / y for y # 0; the callers raise ZeroDivisionError when y = 0
Div(x, y) == Rat(x.n * y.d, x.d * y.n)
Lt(x, y) == x.n * y.d < y.n * x.d

\* x ** k for an integer-valued exponent k >= 0
RECURSIVE PowInt(_, _)
PowInt(x, k) == IF k = 0 THEN One ELSE Mul(x, PowInt(x, k - 1))

\* the largest integer-valued exponent computed exactly; 365.0 / days is
\* 1 for days = 365 and 5 for days = 73
MaxExactExponent == 5

DaysPerYear == 365

Raise(e) == [status |-> "raise", exc |-> e]
Return(v) == [status |-> "ok", value |-> v]

\* ((1 + return_pct / 100) ** (365.0 / days) - 1) * 100, for days > 0
Compound(return_pct, days) ==
    LET base == Add(One, Div(return_pct, Hundred))
    IN  IF DaysPerYear % days = 0 /\ DaysPerYear \div days <= MaxExactExponent
        THEN Mul(Sub(PowInt(base, DaysPerYear \div days), One), Hundred)
        ELSE [base |-> base, days |-> days]

-----------------------------------------------------------------------------
(* src/src/utils.py *)

\* mutant: the period return is passed through without compounding
annualize_return_not_compounded(return_pct, days) ==
    IF days <= 0 THEN Zero ELSE return_pct

\* lines 119-125
annualize_return(return_pct, days) ==
    IF days <= 0 THEN Zero ELSE Compound(return_pct, days)

\* min(values) and max(values) of a non-empty list
list_min(values) == values[CHOOSE i \in 1 .. Len(values) : \A j \in 1 .. Len(values) : ~Lt(values[j], values[i])]

list_max(values) == values[CHOOSE i \in 1 .. Len(values) : \A j \in 1 .. Len(values) : ~Lt(values[i], values[j])]

\* mutant: the rank is returned as computed, without the clamp
calculate_iv_rank_unclamped(current_iv, iv_history) ==
    IF Len(iv_history) < 2 THEN FromInt(50)
    ELSE IF list_max(iv_history) = list_min(iv_history) THEN FromInt(50)
    ELSE Mul(Div(Sub(current_iv, list_min(iv_history)),
                 Sub(list_max(iv_history), list_min(iv_history))), Hundred)

\* lines 214-235
calculate_iv_rank(current_iv, iv_history) ==
    IF Len(iv_history) < 2 THEN FromInt(50)
    ELSE LET min_iv == list_min(iv_history)
             max_iv == list_max(iv_history)
             iv_rank == Mul(Div(Sub(current_iv, min_iv), Sub(max_iv, min_iv)), Hundred)
             capped == IF Lt(iv_rank, Hundred) THEN iv_rank ELSE Hundred
         IN  IF max_iv = min_iv THEN FromInt(50)
             ELSE IF Lt(Zero, capped) THEN capped ELSE Zero

-----------------------------------------------------------------------------
(* src/src/calculator.py: ReturnCalculator *)

DefaultContractSize == 100

\* mutant: twice the notional is reserved
put_capital_required_doubled(strike_price, contract_size) ==
    Mul(Mul(strike_price, FromInt(contract_size)), FromInt(2))

\* lines 45-46
put_capital_required(strike_price, contract_size) ==
    Mul(strike_price, FromInt(contract_size))

\* mutant: the breakeven is floored at zero
put_breakeven_floored(strike_price, premium) ==
    IF Lt(strike_price, premium) THEN Zero ELSE Sub(strike_price, premium)

\* lines 61-62
put_breakeven(strike_price, premium) == Sub(strike_price, premium)

\* mutant: the quotient is taken with floor division
put_return_pct_floor_division(total_premium, capital_required) ==
    LET quotient == Div(total_premium, capital_required)
    IN  Mul(FromInt(quotient.n \div quotient.d), Hundred)

\* lines 51-52, for capital_required # 0
put_return_pct(total_premium, capital_required) ==
    Mul(Div(total_premium, capital_required), Hundred)

\* mutant: the sign of the period return is lost before compounding
put_annualized_sign_slip(return_pct, days_to_expiration) ==
    IF days_to_expiration > 0
    THEN Compound(Sub(Zero, return_pct), days_to_expiration)
    ELSE Zero

\* lines 54-59
put_annualized(return_pct, days_to_expiration) ==
    IF days_to_expiration > 0
    THEN Compound(return_pct, days_to_expiration)
    ELSE Zero

calculate_put_return(stock_price, strike_price, premium, days_to_expiration, contract_size) ==
    LET capital_required == put_capital_required(strike_price, contract_size)
        total_premium == Mul(premium, FromInt(contract_size))
        return_pct == put_return_pct(total_premium, capital_required)
        annualized_return == put_annualized(return_pct, days_to_expiration)
        breakeven == put_breakeven(strike_price, premium)
        downside_protection_pct == Mul(Div(premium, stock_price), Hundred)
    IN  IF capital_required = Zero THEN Raise("ZeroDivisionError")
        ELSE IF stock_price = Zero THEN Raise("ZeroDivisionError")
        ELSE Return([capital_required |-> capital_required,
                     premium_received |-> total_premium,
                     return_pct |-> return_pct,
                     annualized_return |-> annualized_return,
                     breakeven_price |-> breakeven,
                     downside_protection_pct |-> downside_protection_pct,
                     days_to_expiration |-> days_to_expiration])

\* lines 119-124
call_annualized(total_return_pct, days_to_expiration) ==
    IF days_to_expiration > 0
    THEN Compound(total_return_pct, days_to_expiration)
    ELSE Zero

\* lines 109-115
call_capital_gain(strike_price, cost_basis, contract_size) ==
    IF Lt(cost_basis, strike_price)
    THEN Mul(Sub(strike_price, cost_basis), FromInt(contract_size))
    ELSE Zero

\* mutant: the upside is measured from the cost basis
call_upside_capture_pct_off_basis(stock_price, strike_price, premium, cost_basis) ==
    Mul(Div(Sub(Add(strike_price, premium), cost_basis), cost_basis), Hundred)

\* lines 126-128
call_upside_capture_pct(stock_price, strike_price, premium, cost_basis) ==
    Mul(Div(Sub(Add(strike_price, premium), stock_price), stock_price), Hundred)

calculate_call_return(stock_price, strike_price, premium, cost_basis, days_to_expiration, contract_size) ==
    LET capital_invested == Mul(cost_basis, FromInt(contract_size))
        total_premium == Mul(premium, FromInt(contract_size))
        premium_return_pct == Mul(Div(total_premium, capital_invested), Hundred)
        capital_gain == call_capital_gain(strike_price, cost_basis, contract_size)
        total_return == Add(total_premium, capital_gain)
        total_return_pct == Mul(Div(total_return, capital_invested), Hundred)
        annualized_return == call_annualized(total_return_pct, days_to_expiration)
        max_profit_price == Add(strike_price, premium)
        upside_capture_pct ==
            call_upside_capture_pct(stock_price, strike_price, premium, cost_basis)
    IN  IF capital_invested = Zero THEN Raise("ZeroDivisionError")
        ELSE IF stock_price = Zero THEN Raise("ZeroDivisionError")
        ELSE Return([capital_invested |-> capital_invested,
                     premium_received |-> total_premium,
                     potential_capital_gain |-> capital_gain,
                     total_return |-> total_return,
                     premium_return_pct |-> premium_return_pct,
                     total_return_pct |-> total_return_pct,
                     annualized_return |-> annualized_return,
                     upside_capture_pct |-> upside_capture_pct,
                     max_profit_price |-> max_profit_price,
                     days_to_expiration |-> days_to_expiration])

\* the value of 'call_phase' when the call phase is not computed
None == [status |-> "None"]

\* mutant: the call phase is priced at the caller's stock price
wheel_call_phase_current_price(stock_price, put_strike, put_premium, call_strike, call_premium, call_dte) ==
    LET cost_basis == Sub(put_strike, put_premium)
    IN  calculate_call_return(stock_price, call_strike, call_premium, cost_basis,
                              call_dte, DefaultContractSize)

\* lines 180-186: the call phase of a cycle, the stock taken at put_strike
wheel_call_phase(stock_price, put_strike, put_premium, call_strike, call_premium, call_dte) ==
    LET cost_basis == Sub(put_strike, put_premium)
    IN  calculate_call_return(put_strike, call_strike, call_premium, cost_basis,
                              call_dte, DefaultContractSize)

\* mutant: without a positive day count the return is passed through
cycle_annualized_passthrough(total_return_pct, total_days) ==
    IF total_days > 0
    THEN Compound(total_return_pct, total_days)
    ELSE total_return_pct

\* lines 195-199
cycle_annualized(total_return_pct, total_days) ==
    IF total_days > 0
    THEN Compound(total_return_pct, total_days)
    ELSE Zero

\* mutant: the cycle return counts the call phase's capital gain
cycle_totals_with_gain(put_returns, call_returns, put_strike, put_dte, call_dte) ==
    LET total_premium ==
            Add(put_returns.premium_received, call_returns.premium_received)
        total_days == put_dte + call_dte
        capital_required == Mul(put_strike, Hundred)
        total_return ==
            Add(put_returns.premium_received, call_returns.total_return)
        total_return_pct == Mul(Div(total_return, capital_required), Hundred)
    IN  [total_premium |-> total_premium,
         total_days |-> total_days,
         capital_required |-> capital_required,
         total_return_pct |-> total_return_pct]

\* mutant: the cycle reports its capital net of the put premium
cycle_totals_net_capital(put_returns, call_returns, put_strike, put_dte, call_dte) ==
    LET total_premium ==
            Add(put_returns.premium_received, call_returns.premium_received)
        total_days == put_dte + call_dte
        capital_required == Mul(put_strike, Hundred)
        total_return_pct == Mul(Div(total_premium, capital_required), Hundred)
    IN  [total_premium |-> total_premium,
         total_days |-> total_days,
         capital_required |-> Sub(capital_required, put_returns.premium_received),
         total_return_pct |-> total_return_pct]

\* lines 188-193: the totals of a full cycle
cycle_totals(put_returns, call_returns, put_strike, put_dte, call_dte) ==
    LET total_premium ==
            Add(put_returns.premium_received, call_returns.premium_received)
        total_days == put_dte + call_dte
        capital_required == Mul(put_strike, Hundred)
        total_return_pct == Mul(Div(total_premium, capital_required), Hundred)
    IN  [total_premium |-> total_premium,
         total_days |-> total_days,
         capital_required |-> capital_required,
         total_return_pct |-> total_return_pct]

\* mutant: the put-only cycle reports the period return as its annualized return
put_only_cycle_period_return(put_returns, put_dte) ==
    [put_phase |-> put_returns,
     call_phase |-> None,
     total_premium |-> put_returns.premium_received,
     total_return_pct |-> put_returns.return_pct,
     annualized_cycle_return |-> put_returns.return_pct,
     total_days |-> put_dte,
     capital_required |-> put_returns.capital_required]

\* lines 210-220: the cycle when no assignment is assumed
put_only_cycle(put_returns, put_dte) ==
    [put_phase |-> put_returns,
     call_phase |-> None,
     total_premium |-> put_returns.premium_received,
     total_return_pct |-> put_returns.return_pct,
     annualized_cycle_return |-> put_returns.annualized_return,
     total_days |-> put_dte,
     capital_required |-> put_returns.capital_required]

calculate_wheel_cycle_return(stock_price, put_strike, put_premium, call_strike, call_premium, put_dte, call_dte, assignment_assumed) ==
    LET put_call == calculate_put_return(stock_price, put_strike, put_premium,
                                         put_dte, DefaultContractSize)
        put_returns == put_call.value
        call_call == wheel_call_phase(stock_price, put_strike, put_premium,
                                      call_strike, call_premium, call_dte)
        call_returns == call_call.value
        totals == cycle_totals(put_returns, call_returns, put_strike, put_dte,
                               call_dte)
    IN  IF put_call.status = "raise" THEN put_call
        ELSE IF assignment_assumed
        THEN IF call_call.status = "raise" THEN call_call
             ELSE Return([put_phase |-> put_returns,
                          call_phase |-> call_returns,
                          total_premium |-> totals.total_premium,
                          total_return_pct |-> totals.total_return_pct,
                          annualized_cycle_return |->
                              cycle_annualized(totals.total_return_pct,
                                               totals.total_days),
                          total_days |-> totals.total_days,
                          capital_required |-> totals.capital_required])
        ELSE Return(put_only_cycle(put_returns, put_dte))

\* mutant: the risk-free rate is not converted to a percentage
calculate_sharpe_ratio_rate_not_percent(annualized_return, annualized_volatility) ==
    IF annualized_volatility = Zero
    THEN Zero
    ELSE Div(Sub(annualized_return, risk_free_rate), annualized_volatility)

\* lines 222-242; self.risk_free_rate is the variable risk_free_rate
calculate_sharpe_ratio(annualized_return, annualized_volatility) ==
    IF annualized_volatility = Zero
    THEN Zero
    ELSE Div(Sub(annualized_return, Mul(risk_free_rate, Hundred)),
             annualized_volatility)

\* mutant: a stock price equal to the breakeven counts as a loss
pop_at_expiration_strict(stock_price, breakeven_price) ==
    IF Lt(breakeven_price, stock_price) THEN One ELSE Zero

\* lines 266-267
pop_at_expiration(stock_price, breakeven_price) ==
    IF ~Lt(stock_price, breakeven_price) THEN One ELSE Zero

\* the z-score (stock_price - breakeven_price) / expected_move of a non-zero
\* difference, where expected_move is move * sqrt(days / 365.0)
ZScore(difference, move, days) ==
    [difference |-> difference, move |-> move, days |-> days]

\* mutant: the z-score is divided out whatever the expected move
pop_z_score_unguarded(stock_price, breakeven_price, implied_volatility, days_to_expiration) ==
    ZScore(Sub(stock_price, breakeven_price),
           Mul(stock_price, implied_volatility), days_to_expiration)

\* lines 269-274, for days_to_expiration > 0: math.sqrt(time_fraction) is
\* positive, so expected_move has the sign of stock_price * implied_volatility
pop_z_score(stock_price, breakeven_price, implied_volatility, days_to_expiration) ==
    LET move == Mul(stock_price, implied_volatility)
        difference == Sub(stock_price, breakeven_price)
    IN  IF Lt(Zero, move)
        THEN IF difference = Zero
             THEN Zero
             ELSE ZScore(difference, move, days_to_expiration)
        ELSE Zero

\* line 277: scipy.stats.norm.cdf, 0.5 at 0 and kept as a term elsewhere
norm_cdf(z_score) == IF z_score = Zero THEN Rat(1, 2) ELSE [cdf |-> z_score]

\* lines 244-279
calculate_probability_of_profit(stock_price, breakeven_price, implied_volatility, days_to_expiration) ==
    IF days_to_expiration <= 0
    THEN pop_at_expiration(stock_price, breakeven_price)
    ELSE norm_cdf(pop_z_score(stock_price, breakeven_price,
                              implied_volatility, days_to_expiration))

\* lines 281-308
calculate_expected_value(premium, max_loss, probability_of_profit, contract_size) ==
    LET total_premium == Mul(premium, FromInt(contract_size))
        total_max_loss == Mul(max_loss, FromInt(contract_size))
    IN  Sub(Mul(probability_of_profit, total_premium),
            Mul(Sub(One, probability_of_profit), total_max_loss))

-----------------------------------------------------------------------------
(* Inputs *)

Prices == {Rat(k, 2) : k \in -1 .. MaxPriceHalves}
Days == {-1, 0, 73, 146, 365}
ContractSizes == {1, DefaultContractSize}

\* premiums reach one step further down, below the negated smallest strike
Premiums == Prices \cup {Rat(-2, 2)}

PutArgs ==
    [stock_price : Prices, strike_price : Prices, premium : Premiums,
     days_to_expiration : Days, contract_size : ContractSizes]

CallArgs ==
    [stock_price : Prices, strike_price : Prices, premium : Prices,
     cost_basis : Prices, days_to_expiration : Days,
     contract_size : ContractSizes]

WheelDays == {-73, 73, 292}

WheelPrices == {Rat(k, 2) : k \in -1 .. MaxWheelHalves}

WheelArgs ==
    [stock_price : WheelPrices, put_strike : WheelPrices,
     put_premium : WheelPrices, call_strike : WheelPrices,
     call_premium : WheelPrices, put_dte : WheelDays,
     call_dte : WheelDays, assignment_assumed : BOOLEAN]

AnnualizeArgs == [return_pct : {Mul(p, Hundred) : p \in Prices}, days : Days]

\* percentages around risk_free_rate * 100 = 4.5: k * 4.5 for k/2 a price
Percentages == {Mul(p, FromInt(9)) : p \in Prices}

Probabilities == {Zero, Rat(1, 2), One}

\* the default risk-free rate and two others
Rates == {Zero, Rat(45, 1000), Rat(9, 100)}

PopArgs ==
    [stock_price : Prices, breakeven_price : Prices,
     implied_volatility : Prices, days_to_expiration : Days]

SharpeArgs ==
    [annualized_return : Percentages, annualized_volatility : Percentages]

ExpectedValueArgs ==
    [premium : Prices, max_loss : Prices,
     probability_of_profit : Probabilities, contract_size : ContractSizes]

\* the longest IV history
MaxHistory == 3

\* implied volatilities 0.0, 0.1 .. 0.4
Volatilities == {Rat(k, 10) : k \in 0 .. 4}

IvRankArgs ==
    [current_iv : Volatilities,
     iv_history : UNION {[1 .. n -> Volatilities] : n \in 0 .. MaxHistory}]

ArgsOf(o) ==
    CASE o = "put" -> PutArgs
      [] o = "iv_rank" -> IvRankArgs
      [] o = "call" -> CallArgs
      [] o = "wheel" -> WheelArgs
      [] o = "annualize" -> AnnualizeArgs
      [] o = "pop" -> PopArgs
      [] o = "sharpe" -> SharpeArgs
      [] o = "ev" -> ExpectedValueArgs

Ops == {"put", "call", "wheel", "annualize", "pop", "sharpe", "ev", "iv_rank"}

\* the rates the calculator is constructed with before a call of o
RatesOf(o) == IF o = "sharpe" THEN Rates ELSE {Rat(45, 1000)}

Pending == [status |-> "pending"]

-----------------------------------------------------------------------------
(* The calls *)

\* get_default_config()['screening'], which StockScreener.__init__ keeps as
\* screening_criteria; market caps are in millions of dollars and share
\* volumes in thousands of shares
DefaultCriteria ==
    [min_market_cap |-> FromInt(10000),
     min_price |-> FromInt(10),
     max_price |-> FromInt(500),
     min_avg_volume |-> FromInt(1000),
     min_options_volume |-> FromInt(500),
     min_iv_rank |-> FromInt(25)]

\* ReturnCalculator.__init__, risk_free_rate = 0.045 by default
Init ==
    /\ op \in Ops
    /\ risk_free_rate \in RatesOf(op)
    /\ args \in ArgsOf(op)
    /\ result = Pending
    /\ calls = 0
    /\ screening_criteria = DefaultCriteria

PutReturn ==
    /\ op = "put"
    /\ result = Pending
    /\ result' = calculate_put_return(args.stock_price, args.strike_price,
                     args.premium, args.days_to_expiration, args.contract_size)
    /\ calls' = calls + 1
    /\ UNCHANGED <<risk_free_rate, op, args, screening_criteria>>

CallReturn ==
    /\ op = "call"
    /\ result = Pending
    /\ result' = calculate_call_return(args.stock_price, args.strike_price,
                     args.premium, args.cost_basis, args.days_to_expiration,
                     args.contract_size)
    /\ calls' = calls + 1
    /\ UNCHANGED <<risk_free_rate, op, args, screening_criteria>>

WheelCycleReturn ==
    /\ op = "wheel"
    /\ result = Pending
    /\ result' = calculate_wheel_cycle_return(args.stock_price, args.put_strike,
                     args.put_premium, args.call_strike, args.call_premium,
                     args.put_dte, args.call_dte, args.assignment_assumed)
    /\ calls' = calls + 1
    /\ UNCHANGED <<risk_free_rate, op, args, screening_criteria>>

AnnualizeReturn ==
    /\ op = "annualize"
    /\ result = Pending
    /\ result' = Return(annualize_return(args.return_pct, args.days))
    /\ calls' = calls + 1
    /\ UNCHANGED <<risk_free_rate, op, args, screening_criteria>>

ProbabilityOfProfit ==
    /\ op = "pop"
    /\ result = Pending
    /\ result' = Return(calculate_probability_of_profit(args.stock_price,
                     args.breakeven_price, args.implied_volatility,
                     args.days_to_expiration))
    /\ calls' = calls + 1
    /\ UNCHANGED <<risk_free_rate, op, args, screening_criteria>>

\* mutant: the call converts the stored rate to a percentage in place
SharpeRatio_rate_stored_in_percent ==
    /\ op = "sharpe"
    /\ result = Pending
    /\ result' = Return(calculate_sharpe_ratio(args.annualized_return,
                     args.annualized_volatility))
    /\ risk_free_rate' = Mul(risk_free_rate, Hundred)
    /\ calls' = calls + 1
    /\ UNCHANGED <<op, args, screening_criteria>>

SharpeRatio ==
    /\ op = "sharpe"
    /\ result = Pending
    /\ result' = Return(calculate_sharpe_ratio(args.annualized_return,
                     args.annualized_volatility))
    /\ calls' = calls + 1
    /\ UNCHANGED <<risk_free_rate, op, args, screening_criteria>>

ExpectedValue ==
    /\ op = "ev"
    /\ result = Pending
    /\ result' = Return(calculate_expected_value(args.premium, args.max_loss,
                     args.probability_of_profit, args.contract_size))
    /\ calls' = calls + 1
    /\ UNCHANGED <<risk_free_rate, op, args, screening_criteria>>

IvRank ==
    /\ op = "iv_rank"
    /\ result = Pending
    /\ result' = Return(calculate_iv_rank(args.current_iv, args.iv_history))
    /\ calls' = calls + 1
    /\ UNCHANGED <<risk_free_rate, op, args, screening_criteria>>

Next ==
    \/ IvRank
    \/ PutReturn
    \/ CallReturn
    \/ WheelCycleReturn
    \/ AnnualizeReturn
    \/ ProbabilityOfProfit
    \/ SharpeRatio
    \/ ExpectedValue

Spec == Init /\ [][Next]_vars

\* what the call of o with arguments a returns on the calculator as it is
Outcome(o, a) ==
    CASE o = "put" ->
           calculate_put_return(a.stock_price, a.strike_price, a.premium,
                                a.days_to_expiration, a.contract_size)
      [] o = "call" ->
           calculate_call_return(a.stock_price, a.strike_price, a.premium,
                                 a.cost_basis, a.days_to_expiration,
                                 a.contract_size)
      [] o = "wheel" ->
           calculate_wheel_cycle_return(a.stock_price, a.put_strike,
                                        a.put_premium, a.call_strike,
                                        a.call_premium, a.put_dte, a.call_dte,
                                        a.assignment_assumed)
      [] o = "annualize" -> Return(annualize_return(a.return_pct, a.days))
      [] o = "iv_rank" -> Return(calculate_iv_rank(a.current_iv, a.iv_history))
      [] o = "pop" ->
           Return(calculate_probability_of_profit(a.stock_price,
                      a.breakeven_price, a.implied_volatility,
                      a.days_to_expiration))
      [] o = "sharpe" ->
           Return(calculate_sharpe_ratio(a.annualized_return,
                                         a.annualized_volatility))
      [] o = "ev" ->
           Return(calculate_expected_value(a.premium, a.max_loss,
                      a.probability_of_profit, a.contract_size))

\* the same call made again, with identical arguments, on the same calculator
CallAgain ==
    /\ result # Pending
    /\ calls < MaxCalls
    /\ result' = Outcome(op, args)
    /\ calls' = calls + 1
    /\ UNCHANGED <<risk_free_rate, op, args, screening_criteria>>

RepeatNext == Next \/ CallAgain

RepeatSpec == Init /\ [][RepeatNext]_vars

-----------------------------------------------------------------------------
(* src/src/analyzer.py: WheelAnalyzer and TickerAnalysis.                  *)
(* A pandas table is the sequence of its rows, the empty DataFrame is <<>>. *)
(* What yfinance answers for a ticker is upstream data: a quote with the    *)
(* outcome of the fetch, the current price, the days to the nearest         *)
(* expiration and the two sides of its option chain.  Chain rows have a     *)
(* finite bid and a positive strike.                                        *)

\* the longest ticker list passed to compare_opportunities
MaxTickers == 3

ChainRow(strike, bid) == [strike |-> strike, bid |-> bid]

Quote(fetch, current_price, expiration, puts_df, calls_df) == [fetch |-> fetch, current_price |-> current_price, expiration |-> expiration, puts |-> puts_df, calls |-> calls_df]

\* the nearest expiration, dte days away
Expires(dte) == [dte |-> dte]

Tickers == {"AAPL", "KO", "TSLA", "F", "GME", "NOPX", "NEXP", "EMPT", "ITM"}

\* upstream data of each ticker
Market(ticker) ==
    CASE ticker = "AAPL" ->
           Quote("ok", FromInt(2), Expires(73),
                 <<ChainRow(Rat(1, 2), Zero), ChainRow(One, Rat(1, 2)),
                   ChainRow(Rat(3, 2), Rat(1, 2)), ChainRow(Rat(5, 2), One)>>,
                 <<ChainRow(Rat(3, 2), One), ChainRow(Rat(5, 2), Rat(1, 2)),
                   ChainRow(FromInt(3), Zero)>>)
      [] ticker = "KO" ->
           Quote("ok", FromInt(4), Expires(73),
                 <<ChainRow(FromInt(2), One)>>,
                 <<ChainRow(FromInt(5), One)>>)
      [] ticker = "TSLA" ->
           Quote("ok", FromInt(2), Expires(365),
                 <<ChainRow(One, Rat(3, 4)), ChainRow(Rat(3, 2), Rat(3, 4))>>,
                 <<ChainRow(FromInt(3), One)>>)
      [] ticker = "F" ->
           Quote("ok", FromInt(2), Expires(0),
                 <<ChainRow(One, Rat(1, 2)), ChainRow(Rat(3, 2), Rat(1, 4))>>,
                 <<ChainRow(Rat(5, 2), Rat(1, 2)), ChainRow(FromInt(3), Rat(1, 4))>>)
      [] ticker = "GME" ->
           Quote("raise", None, None, <<>>, <<>>)
      [] ticker = "NOPX" ->
           Quote("ok", None, Expires(73),
                 <<ChainRow(One, Rat(1, 2))>>, <<ChainRow(FromInt(3), Rat(1, 2))>>)
      [] ticker = "NEXP" ->
           Quote("ok", FromInt(2), None, <<>>, <<>>)
      [] ticker = "EMPT" ->
           Quote("ok", FromInt(2), Expires(73), <<>>, <<>>)
      [] ticker = "ITM" ->
           Quote("ok", FromInt(2), Expires(73),
                 <<ChainRow(FromInt(2), One), ChainRow(FromInt(3), One)>>,
                 <<ChainRow(FromInt(2), One), ChainRow(One, One)>>)
      [] ticker = "XOM" ->
           Quote("ok", FromInt(20), Expires(73), <<ChainRow(FromInt(10), FromInt(5))>>, <<>>)
      [] ticker = "MSFT" ->
           Quote("ok", FromInt(20), Expires(73), <<ChainRow(FromInt(10), FromInt(5))>>, <<>>)
      [] ticker = "MCD" ->
           Quote("ok", FromInt(20), Expires(365), <<ChainRow(FromInt(10), FromInt(4))>>, <<>>)
      [] ticker = "SBUX" ->
           Quote("ok", FromInt(20), Expires(365), <<ChainRow(FromInt(10), FromInt(6))>>, <<>>)
      [] ticker \in {"QQQ", "IWM"} ->
           Quote("ok", FromInt(20), Expires(365), <<ChainRow(FromInt(10), FromInt(3))>>, <<>>)
      [] ticker = "SPY" ->
           Quote("ok", FromInt(20), Expires(365), <<ChainRow(FromInt(10), One)>>, <<>>)
      [] OTHER ->
           Quote("ok", FromInt(20), Expires(73), <<>>, <<>>)

\* strategy.put_selling.min_premium_pct and strategy.covered_calls.min_premium_pct
put_min_premium_pct == One
call_min_premium_pct == Rat(1, 2)

\* the permutations of 1 .. n
Orders(n) == {f \in [1 .. n -> 1 .. n] : \A i, j \in 1 .. n : f[i] = f[j] => i = j}

\* row.get(key, default)
Get(row, key, default) == IF key \in DOMAIN row THEN row[key] ELSE default

\* the orders in which the rows of the index set remaining can follow, when
\* above[i] is the number of rows whose key is greater than that of row i
RECURSIVE Arrange(_, _)
Arrange(above, remaining) ==
    IF remaining = {} THEN {<<>>}
    ELSE LET placed == Cardinality(DOMAIN above) - Cardinality(remaining)
         IN  UNION {{<<i>> \o rest : rest \in Arrange(above, remaining \ {i})} :
                        i \in {j \in remaining : above[j] <= placed}}

\* DataFrame.sort_values(key, ascending=False): the default sort is not
\* stable, so every descending order of the rows is a possible outcome
sort_values(rows, key) ==
    LET n == Len(rows)
        above == [i \in 1 .. n |-> Cardinality({j \in 1 .. n : Lt(rows[i][key], rows[j][key])})]
    IN  {[p \in 1 .. n |-> rows[f[p]]] : f \in Arrange(above, 1 .. n)}

\* TickerAnalysis.__init__: the fetch may raise; the price and the nearest
\* expiration are read once
TickerAnalysis(ticker) ==
    LET quote == Market(ticker)
    IN  IF quote.fetch = "raise" THEN Raise("Exception")
        ELSE Return([ticker |-> ticker,
                     current_price |-> quote.current_price,
                     expiration_date |-> quote.expiration,
                     puts |-> quote.puts,
                     calls |-> quote.calls])

\* mutant: puts at or above the current price are kept
RECURSIVE put_results_any_strike(_, _, _, _)
put_results_any_strike(puts, current_price, min_premium, dte) ==
    IF puts = <<>> THEN <<>>
    ELSE LET row == Head(puts)
             strike == row.strike
             premium == row.bid
             rest == put_results_any_strike(Tail(puts), current_price, min_premium, dte)
         IN  IF Lt(premium, min_premium) THEN rest
             ELSE LET returns == calculate_put_return(current_price, strike, premium, dte, DefaultContractSize).value
                  IN  <<[strike |-> strike,
                         premium |-> premium,
                         bid |-> row.bid,
                         dte |-> dte,
                         return_pct |-> returns.return_pct,
                         annualized_return |-> returns.annualized_return,
                         breakeven |-> returns.breakeven_price,
                         downside_protection |-> returns.downside_protection_pct]>> \o rest

\* lines 243-276 of get_put_opportunities: the rows kept from the put side of the chain
RECURSIVE put_results(_, _, _, _)
put_results(puts, current_price, min_premium, dte) ==
    IF puts = <<>> THEN <<>>
    ELSE LET row == Head(puts)
             strike == row.strike
             premium == row.bid
             rest == put_results(Tail(puts), current_price, min_premium, dte)
         IN  IF Lt(premium, min_premium) THEN rest
             ELSE IF ~Lt(strike, current_price) THEN rest
             ELSE LET returns == calculate_put_return(current_price, strike, premium, dte, DefaultContractSize).value
                  IN  <<[strike |-> strike,
                         premium |-> premium,
                         bid |-> row.bid,
                         dte |-> dte,
                         return_pct |-> returns.return_pct,
                         annualized_return |-> returns.annualized_return,
                         breakeven |-> returns.breakeven_price,
                         downside_protection |-> returns.downside_protection_pct]>> \o rest

\* the possible outcomes of TickerAnalysis.get_put_opportunities()
get_put_opportunities(self) ==
    IF self.expiration_date = None THEN {Return(<<>>)}
    ELSE IF self.current_price = None THEN {Raise("TypeError")}
    ELSE IF self.puts = <<>> THEN {Return(<<>>)}
    ELSE LET min_premium == Div(Mul(put_min_premium_pct, self.current_price), Hundred)
             results == put_results(self.puts, self.current_price, min_premium, self.expiration_date.dte)
         IN  IF results = <<>> THEN {Return(<<>>)}
             ELSE {Return(df) : df \in sort_values(results, "annualized_return")}

\* lines 330-365 of get_call_opportunities: the rows kept from the call side of the chain
RECURSIVE call_results(_, _, _, _, _)
call_results(calls_df, current_price, min_premium, cost_basis, dte) ==
    IF calls_df = <<>> THEN <<>>
    ELSE LET row == Head(calls_df)
             strike == row.strike
             premium == row.bid
             rest == call_results(Tail(calls_df), current_price, min_premium, cost_basis, dte)
         IN  IF Lt(premium, min_premium) THEN rest
             ELSE IF ~Lt(current_price, strike) THEN rest
             ELSE LET returns == calculate_call_return(current_price, strike, premium, cost_basis, dte, DefaultContractSize).value
                  IN  <<[strike |-> strike,
                         premium |-> premium,
                         bid |-> row.bid,
                         dte |-> dte,
                         premium_return_pct |-> returns.premium_return_pct,
                         total_return_pct |-> returns.total_return_pct,
                         annualized_return |-> returns.annualized_return,
                         max_profit_price |-> returns.max_profit_price,
                         upside_capture |-> returns.upside_capture_pct]>> \o rest

\* the possible outcomes of TickerAnalysis.get_call_opportunities()
get_call_opportunities(self) ==
    IF self.expiration_date = None THEN {Return(<<>>)}
    ELSE IF self.current_price = None THEN {Raise("TypeError")}
    ELSE IF self.calls = <<>> THEN {Return(<<>>)}
    ELSE LET cost_basis == self.current_price
             min_premium == Div(Mul(call_min_premium_pct, self.current_price), Hundred)
             results == call_results(self.calls, self.current_price, min_premium, cost_basis, self.expiration_date.dte)
         IN  IF results = <<>> THEN {Return(<<>>)}
             ELSE {Return(df) : df \in sort_values(results, "annualized_return")}

\* lines 109-114: the possible outcomes of analysing one ticker
ticker_opportunities(ticker, strategy) ==
    LET analysis == TickerAnalysis(ticker)
    IN  IF analysis.status = "raise" THEN {analysis}
        ELSE IF strategy = "put" THEN get_put_opportunities(analysis.value)
        ELSE get_call_opportunities(analysis.value)

\* mutant: the last row of the ticker's table is taken
compare_row_last(ticker, opportunities) ==
    IF opportunities.status = "raise" THEN <<>>
    ELSE IF opportunities.value = <<>> THEN <<>>
    ELSE LET best == opportunities.value[Len(opportunities.value)]
         IN  <<[ticker |-> ticker,
                strike |-> Get(best, "strike", None),
                premium |-> Get(best, "bid", Zero),
                return_pct |-> Get(best, "return_pct", Zero),
                annualized_return |-> Get(best, "annualized_return", Zero),
                dte |-> Get(best, "dte", 0)]>>

\* lines 116-128: what one ticker appends to results
compare_row(ticker, opportunities) ==
    IF opportunities.status = "raise" THEN <<>>
    ELSE IF opportunities.value = <<>> THEN <<>>
    ELSE LET best == opportunities.value[1]
         IN  <<[ticker |-> ticker,
                strike |-> Get(best, "strike", None),
                premium |-> Get(best, "bid", Zero),
                return_pct |-> Get(best, "return_pct", Zero),
                annualized_return |-> Get(best, "annualized_return", Zero),
                dte |-> Get(best, "dte", 0)]>>

\* mutant: the loop is left at the first ticker that raises
RECURSIVE compare_results_stop_at_error(_, _)
compare_results_stop_at_error(tickers, strategy) ==
    IF tickers = <<>> THEN {<<>>}
    ELSE UNION {IF opportunities.status = "raise" THEN {<<>>}
                ELSE {compare_row(Head(tickers), opportunities) \o rest :
                          rest \in compare_results_stop_at_error(Tail(tickers), strategy)} :
                    opportunities \in ticker_opportunities(Head(tickers), strategy)}

\* lines 105-128: the possible values of results after the loop
RECURSIVE compare_results(_, _)
compare_results(tickers, strategy) ==
    IF tickers = <<>> THEN {<<>>}
    ELSE {compare_row(Head(tickers), opportunities) \o rest :
              opportunities \in ticker_opportunities(Head(tickers), strategy),
              rest \in compare_results(Tail(tickers), strategy)}

\* mutant: the table is ordered by the period return
compare_sorted_by_return_pct(results) == sort_values(results, "return_pct")

\* lines 133-134
compare_sorted(results) == sort_values(results, "annualized_return")

\* the tables WheelAnalyzer.compare_opportunities(tickers, strategy) may return
compare_opportunities(tickers, strategy) ==
    UNION {IF results = <<>> THEN {<<>>} ELSE compare_sorted(results) :
               results \in compare_results(tickers, strategy)}

-----------------------------------------------------------------------------
(* src/src/screener.py: StockScreener *)

\* get_popular_wheel_tickers()
PopularTickers ==
    <<"AAPL", "MSFT", "GOOGL", "AMZN", "META", "NVDA", "AMD", "TSLA",
      "JPM", "BAC", "WFC", "GS", "MS",
      "DIS", "NKE", "SBUX", "MCD", "HD", "TGT", "WMT",
      "JNJ", "UNH", "PFE", "ABBV", "TMO",
      "BA", "CAT", "GE", "MMM",
      "XOM", "CVX", "COP",
      "SPY", "QQQ", "IWM", "DIA">>

\* the place of the ticker in the popular list, 0 for any other ticker
PopularPlace(ticker) ==
    IF \E i \in 1 .. Len(PopularTickers) : PopularTickers[i] = ticker
    THEN CHOOSE i \in 1 .. Len(PopularTickers) : PopularTickers[i] = ticker
    ELSE 0

\* upstream data read by screen_ticker: stock.info, the options volume
\* statistics and the implied volatility of the first expiration; market
\* caps in millions of dollars, share volumes in thousands
InfoAt(ticker, place, quote) ==
    [fetch |-> IF place = 0 THEN "raise" ELSE quote.fetch,
     market_cap |-> FromInt(12000 + 1000 * place),
     price |-> IF quote.current_price = None THEN Zero ELSE quote.current_price,
     avg_volume |-> FromInt(2000),
     sector |-> IF place <= 8 THEN "Technology" ELSE "Other",
     industry |-> "Unknown",
     options_volume |-> IF ticker = "JPM" THEN FromInt(100) ELSE FromInt(500 + 10 * place),
     open_interest |-> FromInt(2000),
     implied_volatility |-> IF ticker = "BAC" THEN None ELSE Rat(3, 10)]

Info(ticker) == InfoAt(ticker, PopularPlace(ticker), Market(ticker))

\* lines 39-121 of screen_ticker, after the data is read: None when the
\* ticker fails a criterion or an error is caught, the result row otherwise
screen_info(criteria, ticker, info) ==
    LET min_market_cap == Get(criteria, "min_market_cap", FromInt(10000))
        min_price == Get(criteria, "min_price", FromInt(10))
        max_price == Get(criteria, "max_price", FromInt(500))
        min_avg_volume == Get(criteria, "min_avg_volume", FromInt(1000))
        excluded_sectors == Get(criteria, "excluded_sectors", {})
        excluded_industries == Get(criteria, "excluded_industries", {})
        min_options_volume == Get(criteria, "min_options_volume", FromInt(500))
        min_open_interest == Get(criteria, "min_open_interest", FromInt(1000))
    IN  IF info.fetch = "raise" THEN None
        ELSE IF Lt(info.market_cap, min_market_cap) THEN None
        ELSE IF Lt(info.price, min_price) \/ Lt(max_price, info.price) THEN None
        ELSE IF Lt(info.avg_volume, min_avg_volume) THEN None
        ELSE IF info.sector \in excluded_sectors \/ info.industry \in excluded_industries THEN None
        ELSE IF Lt(info.options_volume, min_options_volume) THEN None
        ELSE IF Lt(info.open_interest, min_open_interest) THEN None
        ELSE [ticker |-> ticker,
              price |-> info.price,
              market_cap |-> info.market_cap,
              avg_volume |-> info.avg_volume,
              sector |-> info.sector,
              industry |-> info.industry,
              options_volume |-> info.options_volume,
              open_interest |-> info.open_interest,
              implied_volatility |-> info.implied_volatility,
              passes_screen |-> TRUE]

screen_ticker(criteria, ticker) == screen_info(criteria, ticker, Info(ticker))

\* lines 133-139 of screen_multiple_tickers: the rows of the tickers that pass
RECURSIVE screen_results(_, _)
screen_results(criteria, tickers) ==
    IF tickers = <<>> THEN <<>>
    ELSE LET screened == screen_ticker(criteria, Head(tickers))
             rest == screen_results(criteria, Tail(tickers))
         IN  IF screened = None THEN rest ELSE <<screened>> \o rest

\* the tables screen_multiple_tickers(tickers) may return
screen_multiple_tickers(criteria, tickers) ==
    LET results == screen_results(criteria, tickers)
    IN  IF results = <<>> THEN {<<>>} ELSE sort_values(results, "market_cap")

run_default_screen(criteria) == screen_multiple_tickers(criteria, PopularTickers)

\* the greatest value of the column key of a table with at least one row
ColumnMax(df, key) ==
    LET i == CHOOSE j \in 1 .. Len(df) : \A k \in 1 .. Len(df) : ~Lt(df[j][key], df[k][key])
    IN  df[i][key]

\* lines 242-246 of rank_candidates: moderate implied volatility scores best
iv_score(x) ==
    IF x = None THEN Zero
    ELSE IF ~Lt(x, Rat(25, 100)) /\ ~Lt(Rat(50, 100), x) THEN FromInt(40)
    ELSE IF ~Lt(x, Rat(20, 100)) /\ ~Lt(Rat(60, 100), x) THEN FromInt(30)
    ELSE FromInt(20)

\* lines 228-237 of rank_candidates: a column's share of the score
liquidity_score(value, max_value) ==
    IF Lt(Zero, max_value) THEN Mul(Div(value, max_value), FromInt(30)) ELSE Zero

\* the tables rank_candidates(screened_df) may return
rank_candidates(screened_df) ==
    IF screened_df = <<>> THEN {screened_df}
    ELSE LET max_vol == ColumnMax(screened_df, "options_volume")
             max_oi == ColumnMax(screened_df, "open_interest")
             scored == [i \in 1 .. Len(screened_df) |->
                           [wheel_score |-> Add(Add(liquidity_score(screened_df[i].options_volume, max_vol),
                                                    liquidity_score(screened_df[i].open_interest, max_oi)),
                                                iv_score(screened_df[i].implied_volatility)),
                            iv_score |-> iv_score(screened_df[i].implied_volatility)] @@ screened_df[i]]
         IN  sort_values(scored, "wheel_score")

\* `if x:` for an optional number
Truthy(x) == x # None /\ x # Zero

\* lines 52-58 of screen_stocks: the criteria after the overrides are stored
screening_overrides(criteria, min_market_cap, min_iv_rank, min_options_volume) ==
    [criteria EXCEPT
       !.min_market_cap = IF Truthy(min_market_cap) THEN min_market_cap ELSE @,
       !.min_iv_rank = IF Truthy(min_iv_rank) THEN min_iv_rank ELSE @,
       !.min_options_volume = IF Truthy(min_options_volume) THEN min_options_volume ELSE @]

\* lines 60-70 of screen_stocks: the tables it may return under the criteria;
\* the list <<>> is tickers=None or an empty list, which `if tickers:` treats alike
screen_stocks(criteria, tickers) ==
    LET screened == IF tickers # <<>>
                    THEN screen_multiple_tickers(criteria, tickers)
                    ELSE run_default_screen(criteria)
    IN  UNION {IF results = <<>> THEN {results} ELSE rank_candidates(results) : results \in screened}

\* DataFrame.head(n): the first n rows, or all but the last -n for n < 0
head(df, n) ==
    IF n >= 0 THEN SubSeq(df, 1, IF n < Len(df) THEN n ELSE Len(df))
    ELSE SubSeq(df, 1, Len(df) + n)

\* screened.head(20)
TopCandidates == 20

\* the column ticker of a table, as a list
ticker_list(df) == [i \in 1 .. Len(df) |-> df[i].ticker]

\* opportunities[opportunities['annualized_return'] >= min_annual_return]
RECURSIVE at_least(_, _)
at_least(df, min_annual_return) ==
    IF df = <<>> THEN <<>>
    ELSE IF Lt(Head(df).annualized_return, min_annual_return)
    THEN at_least(Tail(df), min_annual_return)
    ELSE <<Head(df)>> \o at_least(Tail(df), min_annual_return)

\* line 159
top_tickers(screened) == ticker_list(head(screened, TopCandidates))

\* the tables find_best_wheel_candidates(min_annual_return, max_results) may
\* return when the screener holds the criteria
find_best_wheel_candidates(criteria, min_annual_return, max_results) ==
    UNION {IF screened = <<>> THEN {<<>>}
           ELSE {IF opportunities = <<>> THEN <<>>
                 ELSE head(at_least(opportunities, min_annual_return), max_results) :
                     opportunities \in compare_opportunities(top_tickers(screened), "put")} :
               screened \in screen_stocks(criteria, <<>>)}

TickerLists == UNION {[1 .. n -> Tickers] : n \in 0 .. MaxTickers}

CompareArgs == [tickers : TickerLists, strategy : {"put", "call"}]

\* the tickers for which a TickerAnalysis object exists
Analysable == {ticker \in Tickers : TickerAnalysis(ticker).status = "ok"}

\* get_put_opportunities() and get_call_opportunities() on analyze_ticker(ticker)
OpportunityArgs == [ticker : Analysable]

\* the arguments of screen_stocks; <<>> is the default screen
ScreenArgs ==
    [tickers : {<<>>, <<"MSFT", "GME", "XOM", "JPM">>},
     min_market_cap : {None, Zero, FromInt(30000)},
     min_iv_rank : {None, FromInt(30)},
     min_options_volume : {None, FromInt(50)}]

\* the arguments of find_best_wheel_candidates
FindBestArgs ==
    [min_annual_return : {Zero, FromInt(20), FromInt(700)},
     max_results : {-1, 0, 1, 3, 10}]

AnalyzerOps == {"compare", "get_put", "get_call", "screen", "find_best"}

\* before the first screen_stocks call there are no arguments
AnalyzerArgsOf(o) ==
    CASE o = "compare" -> CompareArgs
      [] o \in {"get_put", "get_call"} -> OpportunityArgs
      [] o = "screen" -> {None}
      [] o = "find_best" -> FindBestArgs

\* WheelAnalyzer.__init__ with the default configuration
AnalyzerInit ==
    /\ op \in AnalyzerOps
    /\ risk_free_rate = Rat(45, 1000)
    /\ args \in AnalyzerArgsOf(op)
    /\ result = Pending
    /\ calls = 0
    /\ screening_criteria = DefaultCriteria

GetPutOpportunities ==
    /\ op = "get_put"
    /\ result = Pending
    /\ result' \in get_put_opportunities(TickerAnalysis(args.ticker).value)
    /\ calls' = calls + 1
    /\ UNCHANGED <<risk_free_rate, op, args, screening_criteria>>

GetCallOpportunities ==
    /\ op = "get_call"
    /\ result = Pending
    /\ result' \in get_call_opportunities(TickerAnalysis(args.ticker).value)
    /\ calls' = calls + 1
    /\ UNCHANGED <<risk_free_rate, op, args, screening_criteria>>

CompareOpportunities ==
    /\ op = "compare"
    /\ result = Pending
    /\ \E df \in compare_opportunities(args.tickers, args.strategy) :
           result' = Return(df)
    /\ calls' = calls + 1
    /\ UNCHANGED <<risk_free_rate, op, args, screening_criteria>>

\* one call of screen_stocks on the analyzer, after any earlier ones
ScreenStocks ==
    /\ op = "screen"
    /\ calls < MaxCalls
    /\ \E a \in ScreenArgs :
           LET criteria == screening_overrides(screening_criteria, a.min_market_cap, a.min_iv_rank, a.min_options_volume)
           IN  /\ args' = a
               /\ screening_criteria' = criteria
               /\ \E df \in screen_stocks(criteria, a.tickers) : result' = Return(df)
    /\ calls' = calls + 1
    /\ UNCHANGED <<risk_free_rate, op>>

FindBestWheelCandidates ==
    /\ op = "find_best"
    /\ result = Pending
    /\ \E df \in find_best_wheel_candidates(screening_criteria, args.min_annual_return, args.max_results) :
           result' = Return(df)
    /\ calls' = calls + 1
    /\ UNCHANGED <<risk_free_rate, op, args, screening_criteria>>

AnalyzerNext ==
    \/ CompareOpportunities
    \/ ScreenStocks
    \/ FindBestWheelCandidates
    \/ GetPutOpportunities
    \/ GetCallOpportunities

AnalyzerSpec == AnalyzerInit /\ [][AnalyzerNext]_vars

-----------------------------------------------------------------------------
(* Properties *)

PutDone == op = "put" /\ result # Pending
CallDone == op = "call" /\ result # Pending
WheelDone == op = "wheel" /\ result # Pending
AnnualizeDone == op = "annualize" /\ result # Pending
Returned == result.status = "ok"

\* x * k for a rational x and an int k, by cross-multiplication
IsProduct(v, x, k) == v.n * x.d = x.n * k * v.d
\* v = x - y
IsDifference(v, x, y) == v.n * x.d * y.d = (x.n * y.d - y.n * x.d) * v.d
\* v = x + y
IsSum(v, x, y) == v.n * x.d * y.d = (x.n * y.d + y.n * x.d) * v.d

C2_ZeroStrikeReturnsZeroPct ==
    (PutDone /\ args.strike_price = Zero)
    => (Returned /\ result.value.return_pct = Zero)

\* C3 (as claimed): with stock_price = 0 and strike > 0 calculate_put_return
\* returns a result whose downside_protection_pct is 0 instead of raising.
C3_ZeroStockPriceReturnsZeroProtection ==
    (PutDone /\ args.stock_price = Zero /\ Lt(Zero, args.strike_price))
    => (Returned /\ result.value.downside_protection_pct = Zero)

\* C4 (as claimed): with a negative strike_price calculate_put_return fails
\* with InvalidInput and returns no metrics.
C4_NegativeStrikeIsInvalidInput ==
    (PutDone /\ Lt(args.strike_price, Zero))
    => (result.status = "raise" /\ result.exc = "InvalidInput")

\* C5: with a day count <= 0 the annualized result is exactly 0 whatever the
\* return percentage: annualized_return of the put and of the call,
\* annualized_cycle_return of the full cycle (put_dte + call_dte <= 0), and
\* annualize_return; no division by the day count is performed, so a call
\* with such a day count raises only for a zero strike, cost basis or price.
C5_NonPositiveDaysAnnualizeToZero ==
    /\ (PutDone /\ args.days_to_expiration <= 0)
       => IF args.strike_price # Zero /\ args.stock_price # Zero
          THEN Returned /\ result.value.annualized_return = Zero
          ELSE result = Raise("ZeroDivisionError")
    /\ (CallDone /\ args.days_to_expiration <= 0)
       => IF args.cost_basis # Zero /\ args.stock_price # Zero
          THEN Returned /\ result.value.annualized_return = Zero
          ELSE result = Raise("ZeroDivisionError")
    /\ (WheelDone /\ args.assignment_assumed
            /\ args.put_dte + args.call_dte <= 0)
       => IF /\ args.put_strike # Zero
             /\ args.stock_price # Zero
             /\ args.put_strike # args.put_premium
          THEN Returned /\ result.value.annualized_cycle_return = Zero
          ELSE result = Raise("ZeroDivisionError")
    /\ (AnnualizeDone /\ args.days <= 0)
       => (Returned /\ result.value = Zero)

C5_Witness ==
    /\ WheelDone
    /\ Returned
    /\ args.assignment_assumed
    /\ args.put_dte < 0
    /\ args.call_dte > 0
    /\ args.put_dte + args.call_dte <= 0
    /\ result.value.total_return_pct # Zero
    /\ result.value.annualized_cycle_return = Zero

\* C6: calculate_put_return returns breakeven_price = strike_price - premium
\* with no clamping; with premium > strike_price it is negative.
C6_BreakevenNotFloored ==
    (PutDone /\ Returned)
    => /\ IsRat(result.value.breakeven_price)
       /\ IsDifference(result.value.breakeven_price, args.strike_price,
                       args.premium)
       /\ Lt(args.strike_price, args.premium)
          => Lt(result.value.breakeven_price, Zero)

C6_Witness ==
    /\ PutDone
    /\ Returned
    /\ Lt(Zero, args.strike_price)
    /\ Lt(args.strike_price, args.premium)
    /\ Lt(result.value.breakeven_price, Zero)

\* v = max(0, strike - basis) * k
IsCappedGain(v, strike, basis, k) ==
    IF Lt(basis, strike)
    THEN v.n * strike.d * basis.d = (strike.n * basis.d - basis.n * strike.d) * k * v.d
    ELSE v.n = 0

\* C7 (as claimed): for every input with cost_basis # 0 (and contract_size > 0)
\* calculate_call_return returns potential_capital_gain =
\* max(0, strike_price - cost_basis) * contract_size and total_return =
\* premium_received + potential_capital_gain.
C7_CallReturnsCappedGain ==
    (CallDone /\ args.cost_basis # Zero /\ args.contract_size > 0)
    => /\ Returned
       /\ IsCappedGain(result.value.potential_capital_gain, args.strike_price,
                       args.cost_basis, args.contract_size)
       /\ IsSum(result.value.total_return, result.value.premium_received,
                result.value.potential_capital_gain)

\* v = (strike + premium - price) / price * 100
IsUpsideCapture(v, strike, premium, price) ==
    v.n * price.n * strike.d * premium.d =
        100 * v.d * (strike.n * premium.d * price.d + premium.n * strike.d * price.d
                     - price.n * strike.d * premium.d)

\* the call of the current state with another cost basis
CallWithBasis(cost_basis) ==
    calculate_call_return(args.stock_price, args.strike_price, args.premium,
                          cost_basis, args.days_to_expiration, args.contract_size)

\* C8: calculate_call_return returns max_profit_price = strike_price + premium
\* and upside_capture_pct = (max_profit_price - stock_price) / stock_price * 100,
\* and both are the same for every other cost_basis.
C8_UpsideOffStockPriceNotBasis ==
    (CallDone /\ Returned)
    => /\ IsSum(result.value.max_profit_price, args.strike_price, args.premium)
       /\ IsUpsideCapture(result.value.upside_capture_pct, args.strike_price,
                          args.premium, args.stock_price)
       /\ \A cost_basis \in Prices :
            LET other == CallWithBasis(cost_basis)
            IN  other.status = "ok"
                => /\ other.value.max_profit_price =
                          result.value.max_profit_price
                   /\ other.value.upside_capture_pct =
                          result.value.upside_capture_pct

C8_Witness ==
    /\ CallDone
    /\ Returned
    /\ args.stock_price # args.cost_basis
    /\ args.cost_basis = Rat(1, 2)
    /\ args.stock_price = One
    /\ args.strike_price = Rat(3, 2)
    /\ args.premium = Rat(1, 2)
    /\ result.value.max_profit_price = FromInt(2)
    /\ result.value.upside_capture_pct = Hundred
    /\ CallWithBasis(Rat(3, 2)).status = "ok"

\* the cycle of the current state with another stock price
WheelWithPrice(stock_price) ==
    calculate_wheel_cycle_return(stock_price, args.put_strike, args.put_premium,
                                 args.call_strike, args.call_premium,
                                 args.put_dte, args.call_dte,
                                 args.assignment_assumed)

\* C9: with assignment_assumed, the call_phase of calculate_wheel_cycle_return
\* is calculate_call_return(put_strike, call_strike, call_premium,
\* put_strike - put_premium, call_dte), and the caller's stock_price has no
\* influence on it.
C9_CallPhaseAtPutStrike ==
    (WheelDone /\ Returned /\ args.assignment_assumed)
    => /\ result.value.call_phase =
              calculate_call_return(args.put_strike, args.call_strike,
                                    args.call_premium,
                                    Rat(args.put_strike.n * args.put_premium.d
                                          - args.put_premium.n * args.put_strike.d,
                                        args.put_strike.d * args.put_premium.d),
                                    args.call_dte, DefaultContractSize).value
       /\ result.value.call_phase.upside_capture_pct =
              Rat(100 * (args.call_strike.n * args.call_premium.d * args.put_strike.d
                           + args.call_premium.n * args.call_strike.d * args.put_strike.d
                           - args.put_strike.n * args.call_strike.d * args.call_premium.d),
                  args.call_strike.d * args.call_premium.d * args.put_strike.n)
       /\ \A stock_price \in WheelPrices :
            LET other == WheelWithPrice(stock_price)
            IN  other.status = "ok"
                => other.value.call_phase = result.value.call_phase

C9_Witness ==
    /\ WheelDone
    /\ Returned
    /\ args.assignment_assumed
    /\ args.stock_price # args.put_strike
    /\ args.put_premium # Zero
    /\ result.value.call_phase # None
    /\ result.value.call_phase.capital_invested =
           Mul(Sub(args.put_strike, args.put_premium), Hundred)
    /\ \E stock_price \in WheelPrices \ {args.stock_price} :
           WheelWithPrice(stock_price).status = "ok"

\* C10: with assignment_assumed, calculate_wheel_cycle_return returns
\* total_premium = put_phase.premium_received + call_phase.premium_received
\* = (put_premium + call_premium) * 100, total_days = put_dte + call_dte,
\* capital_required = put_strike * 100 and total_return_pct =
\* total_premium / capital_required * 100, without the call phase's capital gain.
C10_CycleTotals ==
    (WheelDone /\ Returned /\ args.assignment_assumed)
    => LET v == result.value
       IN  /\ IsSum(v.total_premium, v.put_phase.premium_received,
                    v.call_phase.premium_received)
           /\ v.total_premium.n * args.put_premium.d * args.call_premium.d =
                  100 * v.total_premium.d
                      * (args.put_premium.n * args.call_premium.d
                         + args.call_premium.n * args.put_premium.d)
           /\ v.total_days = args.put_dte + args.call_dte
           /\ IsProduct(v.capital_required, args.put_strike, 100)
           /\ v.total_return_pct.n * v.capital_required.n * v.total_premium.d =
                  100 * v.total_premium.n * v.capital_required.d
                      * v.total_return_pct.d

C10_Witness ==
    /\ WheelDone
    /\ Returned
    /\ args.assignment_assumed
    /\ Lt(Zero, result.value.call_phase.potential_capital_gain)
    /\ args.put_premium = Rat(1, 2)
    /\ args.call_premium = Rat(1, 2)
    /\ args.put_strike = One
    /\ result.value.total_premium = Hundred
    /\ result.value.capital_required = Hundred
    /\ result.value.total_return_pct = Hundred
    /\ result.value.total_days = 365

\* the put phase of the cycle of the current state, called on its own
WheelPutPhase ==
    calculate_put_return(args.stock_price, args.put_strike, args.put_premium,
                         args.put_dte, DefaultContractSize)

\* the cycle of the current state with another call leg
WheelWithCall(call_strike, call_premium, call_dte) ==
    calculate_wheel_cycle_return(args.stock_price, args.put_strike,
                                 args.put_premium, call_strike, call_premium,
                                 args.put_dte, call_dte,
                                 args.assignment_assumed)

SamePutPhase(other) ==
    other.status = "ok" => other.value.put_phase = result.value.put_phase

\* C11: without assignment_assumed, calculate_wheel_cycle_return returns
\* call_phase = None and total_premium, total_return_pct,
\* annualized_cycle_return, total_days and capital_required equal to
\* premium_received, return_pct, annualized_return, put_dte and capital_required
\* of calculate_put_return(stock_price, put_strike, put_premium, put_dte); in
\* both branches put_phase is that put result, whatever call_strike,
\* call_premium and call_dte are.
C11_PutOnlyMirrorsPutPhase ==
    (WheelDone /\ Returned)
    => /\ WheelPutPhase.status = "ok"
       /\ result.value.put_phase = WheelPutPhase.value
       /\ ~args.assignment_assumed
          => /\ result.value.call_phase = None
             /\ result.value.total_premium = WheelPutPhase.value.premium_received
             /\ result.value.total_return_pct = WheelPutPhase.value.return_pct
             /\ result.value.annualized_cycle_return =
                    WheelPutPhase.value.annualized_return
             /\ result.value.total_days = args.put_dte
             /\ result.value.capital_required =
                    WheelPutPhase.value.capital_required
       /\ \A call_strike \in WheelPrices :
            SamePutPhase(WheelWithCall(call_strike, args.call_premium,
                                       args.call_dte))
       /\ \A call_premium \in WheelPrices :
            SamePutPhase(WheelWithCall(args.call_strike, call_premium,
                                       args.call_dte))
       /\ \A call_dte \in WheelDays :
            SamePutPhase(WheelWithCall(args.call_strike, args.call_premium,
                                       call_dte))

C11_Witness ==
    /\ WheelDone
    /\ Returned
    /\ ~args.assignment_assumed
    /\ args.put_dte = 73
    /\ args.call_dte = 292
    /\ result.value.call_phase = None
    /\ result.value.total_days = 73
    /\ result.value.total_return_pct = FromInt(50)
    /\ result.value.annualized_cycle_return # result.value.total_return_pct

\* C12 (as claimed): a zero capital is a defined outcome, not a raised error:
\* calculate_call_return with cost_basis = 0, and calculate_wheel_cycle_return
\* with assignment_assumed and put_premium = put_strike > 0, return a result.
C12_ZeroCapitalReturnsResult ==
    /\ (CallDone /\ args.cost_basis = Zero) => Returned
    /\ (WheelDone /\ args.assignment_assumed
            /\ args.put_premium = args.put_strike /\ Lt(Zero, args.put_strike))
       => Returned

PopDone == op = "pop" /\ result # Pending
SharpeDone == op = "sharpe" /\ result # Pending

\* the probability call of the current state with another implied volatility
PopWithVolatility(implied_volatility) ==
    calculate_probability_of_profit(args.stock_price, args.breakeven_price,
                                    implied_volatility,
                                    args.days_to_expiration)

\* C13: for days_to_expiration <= 0 calculate_probability_of_profit returns
\* exactly 1.0 when stock_price >= breakeven_price and exactly 0.0 otherwise,
\* whatever implied_volatility is (zero and negative values included).
C13_ProbabilityAtExpiration ==
    (PopDone /\ args.days_to_expiration <= 0)
    => /\ Returned
       /\ args.stock_price.n * args.breakeven_price.d
              >= args.breakeven_price.n * args.stock_price.d
          => result.value = One
       /\ args.stock_price.n * args.breakeven_price.d
              < args.breakeven_price.n * args.stock_price.d
          => result.value = Zero
       /\ \A implied_volatility \in Prices :
            PopWithVolatility(implied_volatility) = result.value

C13_Witness ==
    /\ PopDone
    /\ Returned
    /\ args.days_to_expiration = 0
    /\ args.stock_price = args.breakeven_price
    /\ Lt(args.implied_volatility, Zero)
    /\ result.value = One

\* C14: for days_to_expiration > 0 and an expected move of 0 (stock_price = 0
\* or implied_volatility = 0) calculate_probability_of_profit divides nothing,
\* takes the z-score 0 and returns the normal CDF at 0, which is 0.5, whatever
\* the sign of stock_price - breakeven_price.
C14_ZeroExpectedMoveGivesHalf ==
    (/\ PopDone
     /\ args.days_to_expiration > 0
     /\ (args.stock_price = Zero \/ args.implied_volatility = Zero))
    => /\ Returned
       /\ IsRat(result.value)
       /\ 2 * result.value.n = result.value.d

C14_Witness ==
    /\ PopDone
    /\ Returned
    /\ args.days_to_expiration > 0
    /\ args.implied_volatility = Zero
    /\ Lt(args.stock_price, args.breakeven_price)
    /\ Lt(Zero, args.stock_price)
    /\ result.value = Rat(1, 2)

\* annualized_return exceeds risk_free_rate * 100
ExceedsRiskFree == 100 * risk_free_rate.n * args.annualized_return.d
                       < args.annualized_return.n * risk_free_rate.d

BelowRiskFree == 100 * risk_free_rate.n * args.annualized_return.d
                     > args.annualized_return.n * risk_free_rate.d

\* the result is (annualized_return - risk_free_rate * 100) / annualized_volatility
IsSharpeQuotient ==
    result.value.n * args.annualized_volatility.n
          * args.annualized_return.d * risk_free_rate.d
      = result.value.d * args.annualized_volatility.d
          * (args.annualized_return.n * risk_free_rate.d
             - 100 * risk_free_rate.n * args.annualized_return.d)

\* C15 (as claimed): calculate_sharpe_ratio returns 0 when
\* annualized_volatility is 0, and otherwise
\* (annualized_return - risk_free_rate * 100) / annualized_volatility, which is
\* positive exactly when annualized_return exceeds risk_free_rate * 100 and
\* the volatility is positive.
C15_SharpePositiveOnlyAboveRiskFree ==
    SharpeDone
    => /\ Returned
       /\ args.annualized_volatility = Zero => result.value = Zero
       /\ args.annualized_volatility # Zero
          => /\ IsSharpeQuotient
             /\ Lt(Zero, result.value)
                <=> (ExceedsRiskFree /\ Lt(Zero, args.annualized_volatility))

\* C15 (amended): calculate_sharpe_ratio returns 0 when annualized_volatility
\* is 0, and otherwise
\* (annualized_return - risk_free_rate * 100) / annualized_volatility, which
\* for a positive volatility is positive exactly when annualized_return exceeds
\* risk_free_rate * 100, and for a negative volatility exactly when
\* annualized_return is below it.
C15_SharpeSignFollowsVolatility ==
    SharpeDone
    => /\ Returned
       /\ args.annualized_volatility = Zero => result.value = Zero
       /\ args.annualized_volatility # Zero => IsSharpeQuotient
       /\ Lt(Zero, args.annualized_volatility)
          => (Lt(Zero, result.value) <=> ExceedsRiskFree)
       /\ Lt(args.annualized_volatility, Zero)
          => (Lt(Zero, result.value) <=> BelowRiskFree)

C15_Witness ==
    /\ SharpeDone
    /\ Returned
    /\ risk_free_rate = Rat(45, 1000)
    /\ args.annualized_return = Zero
    /\ args.annualized_volatility = Rat(-9, 2)
    /\ result.value = One

\* C16: a call leaves the ReturnCalculator (its risk_free_rate) unchanged, and
\* the same call made again with identical arguments returns the identical
\* result.
C16_NoHiddenState ==
    [][/\ risk_free_rate' = risk_free_rate
       /\ result # Pending => result' = result]_vars

C16_Witness ==
    /\ SharpeDone
    /\ calls >= 2
    /\ risk_free_rate = Rat(9, 100)
    /\ args.annualized_return = Rat(27, 2)
    /\ args.annualized_volatility = Rat(9, 2)
    /\ result = Return(One)

-----------------------------------------------------------------------------
(* Monotonicity and compounding of the put return *)

\* the put return of the call's arguments with another premium
PutWithPremium(premium) == calculate_put_return(args.stock_price, args.strike_price, premium, args.days_to_expiration, args.contract_size)

\* the annualized value v is a real number: a float, or a power of a
\* non-negative base (a negative base to a fractional power is complex)
IsReal(v) == IsRat(v) \/ ~Lt(v.base, Zero)

\* a < b for two annualized values over the same number of days; x ** e is
\* strictly increasing in x >= 0 for e > 0, and complex values have no order
AnnualizedLt(a, b) ==
    IF IsRat(a) /\ IsRat(b) THEN Lt(a, b)
    ELSE IF IsRat(a) \/ IsRat(b) THEN FALSE
    ELSE a.days = b.days /\ IsReal(a) /\ IsReal(b) /\ Lt(a.base, b.base)

BaseOf(y) == Add(One, Div(y, Hundred))

\* 365 / days in lowest terms is ExponentNum(days) / ExponentDen(days)
ExponentNum(days) == DaysPerYear \div GCD(DaysPerYear, days)
ExponentDen(days) == days \div GCD(DaysPerYear, days)

\* v > y for an annualized value v with a non-negative base and y >= -100:
\* base ** (P/Q) > 1 + y/100 exactly when base ** P > (1 + y/100) ** Q
AnnualizedExceeds(v, y) ==
    IF IsRat(v) THEN Lt(y, v)
    ELSE Lt(PowInt(BaseOf(y), ExponentDen(v.days)),
            PowInt(v.base, ExponentNum(v.days)))

\* v >= y, likewise
AnnualizedAtLeast(v, y) ==
    IF IsRat(v) THEN ~Lt(v, y)
    ELSE ~Lt(PowInt(v.base, ExponentNum(v.days)),
             PowInt(BaseOf(y), ExponentDen(v.days)))

\* v is above return_pct and at least (365 / days) * return_pct
Amplified(v, return_pct, days) ==
    /\ AnnualizedExceeds(v, return_pct)
    /\ AnnualizedAtLeast(v, Mul(Rat(DaysPerYear, days), return_pct))

-----------------------------------------------------------------------------
(* The comparison table *)

CompareDone == op = "compare" /\ result # Pending

\* C20: the table returned by compare_opportunities is ordered by
\* annualized_return descending: of every two adjacent rows the earlier
\* row's annualized_return is >= the later row's.
C20_CompareSortedDescending ==
    CompareDone
    => /\ Returned
       /\ \A i \in 1 .. Len(result.value) - 1 :
              ~Lt(result.value[i].annualized_return,
                  result.value[i + 1].annualized_return)

C20_Witness ==
    /\ CompareDone
    /\ args.strategy = "put"
    /\ args.tickers = <<"F", "TSLA", "AAPL">>
    /\ Len(result.value) = 3
    /\ result.value[1].ticker = "AAPL"
    /\ result.value[2].ticker = "TSLA"
    /\ result.value[3].ticker = "F"
    /\ Lt(result.value[1].return_pct, result.value[2].return_pct)
    /\ Lt(result.value[3].annualized_return, result.value[2].annualized_return)

\* analysing the ticker raises nothing and yields at least one opportunity
YieldsOpportunities(ticker, strategy) ==
    \E opportunities \in ticker_opportunities(ticker, strategy) :
        opportunities.status = "ok" /\ opportunities.value # <<>>

\* the rows of the table for the ticker are as many as its entries in the list
OneRowPerEntry(table, tickers, ticker) ==
    Cardinality({i \in 1 .. Len(table) : table[i].ticker = ticker})
        = Cardinality({i \in 1 .. Len(tickers) : tickers[i] = ticker})

NoRow(table, ticker) == \A i \in 1 .. Len(table) : table[i].ticker # ticker

\* C21: compare_opportunities never raises; a ticker whose analysis raises
\* or yields no opportunities contributes no row, every other ticker of the
\* input still appears, and with no row at all the result is the empty table.
C21_CompareBestEffort ==
    CompareDone
    => /\ Returned
       /\ \A ticker \in Tickers :
              IF YieldsOpportunities(ticker, args.strategy)
              THEN OneRowPerEntry(result.value, args.tickers, ticker)
              ELSE NoRow(result.value, ticker)
       /\ (\A i \in 1 .. Len(args.tickers) :
               ~YieldsOpportunities(args.tickers[i], args.strategy))
          => result.value = <<>>

C21_Witness ==
    /\ CompareDone
    /\ args.tickers = <<"GME", "NOPX", "AAPL">>
    /\ args.strategy = "call"
    /\ TickerAnalysis("GME").status = "raise"
    /\ ticker_opportunities("NOPX", "call") = {Raise("TypeError")}
    /\ Len(result.value) = 1
    /\ result.value[1].ticker = "AAPL"

\* the annualized returns of the ticker's qualifying opportunities for the
\* leg: the chain rows that are out of the money with a bid at the floor or
\* above, priced by the calculator
QualifyingAnnualized(ticker, strategy) ==
    LET quote == Market(ticker)
        price == quote.current_price
        dte == quote.expiration.dte
        put_floor == Div(Mul(put_min_premium_pct, price), Hundred)
        call_floor == Div(Mul(call_min_premium_pct, price), Hundred)
    IN  IF quote.fetch = "raise" \/ price = None \/ quote.expiration = None THEN {}
        ELSE IF strategy = "put"
        THEN {calculate_put_return(price, quote.puts[i].strike, quote.puts[i].bid, dte, DefaultContractSize).value.annualized_return :
                  i \in {j \in 1 .. Len(quote.puts) : ~Lt(quote.puts[j].bid, put_floor) /\ Lt(quote.puts[j].strike, price)}}
        ELSE {calculate_call_return(price, quote.calls[i].strike, quote.calls[i].bid, price, dte, DefaultContractSize).value.annualized_return :
                  i \in {j \in 1 .. Len(quote.calls) : ~Lt(quote.calls[j].bid, call_floor) /\ Lt(price, quote.calls[j].strike)}}

\* v is the greatest element of the set values
IsMaximum(v, values) == v \in values /\ \A w \in values : ~Lt(v, w)

\* C22: each input ticker with at least one qualifying opportunity gets
\* exactly one row (one per entry of the list), whose annualized_return is
\* the maximum over that ticker's qualifying opportunities for the leg.
C22_OneBestRowPerTicker ==
    CompareDone
    => /\ Returned
       /\ \A ticker \in Tickers :
              QualifyingAnnualized(ticker, args.strategy) # {}
              => /\ OneRowPerEntry(result.value, args.tickers, ticker)
                 /\ \A i \in 1 .. Len(result.value) :
                        result.value[i].ticker = ticker
                        => IsMaximum(result.value[i].annualized_return,
                                     QualifyingAnnualized(ticker, args.strategy))

C22_Witness ==
    /\ CompareDone
    /\ args.strategy = "put"
    /\ args.tickers = <<"TSLA", "EMPT", "AAPL">>
    /\ Cardinality(QualifyingAnnualized("AAPL", "put")) = 2
    /\ Len(result.value) = 2
    /\ result.value[1].ticker = "AAPL"
    /\ result.value[1].annualized_return = Rat(5275, 8)
    /\ result.value[2].annualized_return = FromInt(75)

\* the ticker symbols in alphabetical order
TickerOrder == <<"AAPL", "EMPT", "F", "GME", "ITM", "KO", "NEXP", "NOPX", "TSLA">>

\* the position of the symbol in that order
Rank(ticker) == CHOOSE i \in 1 .. Len(TickerOrder) : TickerOrder[i] = ticker

\* C23: rows of the compare_opportunities table with equal
\* annualized_return are ordered by ticker symbol, so that the order of the
\* output does not depend on the order of the input list.
C23_TiesOrderedByTicker ==
    CompareDone
    => /\ Returned
       /\ \A i \in 1 .. Len(result.value) - 1 :
              result.value[i].annualized_return = result.value[i + 1].annualized_return
              => Rank(result.value[i].ticker) <= Rank(result.value[i + 1].ticker)

\* the ticker list taken in the order f
Reordered(tickers, f) == [i \in 1 .. Len(tickers) |-> tickers[f[i]]]

\* C24: for fixed tickers and upstream data the comparison table, rows and
\* order, is the same for every order in which the per-ticker results are
\* computed and collected before the final sort.  Only lists whose tickers
\* each have one possible result of their own are considered.
C24_OrderInsensitive ==
    (/\ CompareDone
     /\ \A i \in 1 .. Len(args.tickers) :
            Cardinality(ticker_opportunities(args.tickers[i], args.strategy)) = 1)
    => /\ Returned
       /\ \A f \in Orders(Len(args.tickers)) :
              compare_opportunities(Reordered(args.tickers, f), args.strategy)
                  = {result.value}

-----------------------------------------------------------------------------
(* The opportunity tables *)

GetPutDone == op = "get_put" /\ result # Pending
GetCallDone == op = "get_call" /\ result # Pending

\* the side of the chain the call reads
ChainOf(o, ticker) == IF o = "get_put" THEN Market(ticker).puts ELSE Market(ticker).calls

\* upstream data is missing: no expiration date, an empty chain or no price
MissingData(o, ticker) ==
    \/ Market(ticker).expiration = None
    \/ ChainOf(o, ticker) = <<>>
    \/ Market(ticker).current_price = None

\* C25: with upstream data missing (no expiration dates, an empty option
\* chain or a missing current price) get_put_opportunities and
\* get_call_opportunities return an empty table and do not raise.
C25_MissingDataGivesEmptyTable ==
    ((GetPutDone \/ GetCallDone) /\ MissingData(op, args.ticker))
    => result = Return(<<>>)

-----------------------------------------------------------------------------
(* Screening *)

ScreenDone == op = "screen" /\ calls >= 1

\* the last screen_stocks call passed no effective override
NoOverride ==
    /\ ~Truthy(args.min_market_cap)
    /\ ~Truthy(args.min_iv_rank)
    /\ ~Truthy(args.min_options_volume)

\* C26: an override of a screening threshold holds for its call only: a
\* screen_stocks call that passes no override screens against the configured
\* default thresholds, whatever the earlier calls on the analyzer passed.
C26_OverridesDoNotPersist ==
    (ScreenDone /\ NoOverride)
    => /\ screening_criteria = DefaultCriteria
       /\ result.value \in screen_stocks(DefaultCriteria, args.tickers)

-----------------------------------------------------------------------------
(* The IV rank *)

IvRankDone == op = "iv_rank" /\ result # Pending

\* every entry of the history is the same value
FlatHistory(iv_history) == \A i, j \in 1 .. Len(iv_history) : iv_history[i] = iv_history[j]

\* v = (current_iv - low) / (high - low) * 100 for a lowest entry low and a
\* highest entry high of the history
IsRawRank(v, current_iv, iv_history) ==
    \E lo, hi \in 1 .. Len(iv_history) :
        /\ \A k \in 1 .. Len(iv_history) : ~Lt(iv_history[k], iv_history[lo]) /\ ~Lt(iv_history[hi], iv_history[k])
        /\ v.n * (iv_history[hi].n * iv_history[lo].d - iv_history[lo].n * iv_history[hi].d) * current_iv.d
               = 100 * v.d * (current_iv.n * iv_history[lo].d - iv_history[lo].n * current_iv.d) * iv_history[hi].d

-----------------------------------------------------------------------------
(* The capital and the premium of a wheel cycle *)

\* C28: in every result of calculate_wheel_cycle_return with put_strike > 0,
\* with or without the assignment, the cycle's capital_required is the put
\* phase's capital_required, and with call_premium >= 0 the cycle's
\* total_premium is at least the put phase's premium_received.
C28_CycleCapitalAndPremium ==
    (WheelDone /\ Returned /\ Lt(Zero, args.put_strike))
    => /\ result.value.capital_required = result.value.put_phase.capital_required
       /\ ~Lt(args.call_premium, Zero)
          => ~Lt(result.value.total_premium, result.value.put_phase.premium_received)

\* a full cycle whose call premium adds to the put premium
C28_Witness ==
    /\ WheelDone
    /\ Returned
    /\ args.assignment_assumed
    /\ args.put_strike = One
    /\ args.put_premium = Rat(1, 2)
    /\ args.call_premium = Rat(1, 2)
    /\ result.value.capital_required = Hundred
    /\ result.value.put_phase.premium_received = FromInt(50)
    /\ result.value.total_premium = Hundred

\* the put-only cycle passes the put phase's capital and premium through
C28_WitnessPutOnly ==
    /\ WheelDone
    /\ Returned
    /\ ~args.assignment_assumed
    /\ args.put_strike = One
    /\ args.put_premium = Rat(1, 2)
    /\ result.value.capital_required = Hundred
    /\ result.value.total_premium = FromInt(50)

-----------------------------------------------------------------------------
(* The rows of an opportunity table *)

\* the premium floor of the call: min_premium_pct percent of the current price
MinPremium(o, ticker) ==
    Div(Mul(IF o = "get_put" THEN put_min_premium_pct ELSE call_min_premium_pct,
            Market(ticker).current_price), Hundred)

\* the strike is out of the money: below the price for a put, above it for a call
OutOfTheMoney(o, ticker, strike) ==
    IF o = "get_put"
    THEN Lt(strike, Market(ticker).current_price)
    ELSE Lt(Market(ticker).current_price, strike)

\* C29: a table returned by get_put_opportunities or get_call_opportunities
\* is ordered by annualized_return descending, every row of it is a chain row
\* that is out of the money (put: strike < current_price, call: strike >
\* current_price) with premium >= min_premium, and no chain row failing
\* either condition appears in it.
C29_OnlyQualifyingRows ==
    ((GetPutDone \/ GetCallDone) /\ Returned)
    => /\ \A i \in 1 .. Len(result.value) - 1 :
              ~Lt(result.value[i].annualized_return, result.value[i + 1].annualized_return)
       /\ \A i \in 1 .. Len(result.value) :
              /\ OutOfTheMoney(op, args.ticker, result.value[i].strike)
              /\ ~Lt(result.value[i].premium, MinPremium(op, args.ticker))
              /\ \E k \in 1 .. Len(ChainOf(op, args.ticker)) :
                     /\ ChainOf(op, args.ticker)[k].strike = result.value[i].strike
                     /\ ChainOf(op, args.ticker)[k].bid = result.value[i].premium
       /\ \A k \in 1 .. Len(ChainOf(op, args.ticker)) :
              (\/ ~OutOfTheMoney(op, args.ticker, ChainOf(op, args.ticker)[k].strike)
               \/ Lt(ChainOf(op, args.ticker)[k].bid, MinPremium(op, args.ticker)))
              => \A i \in 1 .. Len(result.value) :
                     \/ result.value[i].strike # ChainOf(op, args.ticker)[k].strike
                     \/ result.value[i].premium # ChainOf(op, args.ticker)[k].bid

\* of the four puts of AAPL at price 2 the one below the floor and the one
\* above the price are left out, and the higher return comes first
C29_Witness ==
    /\ GetPutDone
    /\ args.ticker = "AAPL"
    /\ Returned
    /\ Len(Market("AAPL").puts) = 4
    /\ Len(result.value) = 2
    /\ result.value[1].strike = One
    /\ result.value[2].strike = Rat(3, 2)
    /\ Lt(result.value[2].annualized_return, result.value[1].annualized_return)

\* of the three calls of AAPL only the one above the price with a bid is kept
C29_WitnessCall ==
    /\ GetCallDone
    /\ args.ticker = "AAPL"
    /\ Returned
    /\ Len(Market("AAPL").calls) = 3
    /\ Len(result.value) = 1
    /\ result.value[1].strike = Rat(5, 2)

-----------------------------------------------------------------------------
(* The best wheel candidates *)

FindBestDone == op = "find_best" /\ result # Pending

\* the tickers of the first 20 rows of the ranked screening result
FirstRanked(screened) == {screened[i].ticker : i \in 1 .. (IF Len(screened) < 20 THEN Len(screened) ELSE 20)}

\* screening yields nothing, or the comparison of the first 20 yields nothing
YieldsNothing(screened) ==
    \/ screened = <<>>
    \/ \A opportunities \in compare_opportunities(ticker_list(SubSeq(screened, 1, IF Len(screened) < 20 THEN Len(screened) ELSE 20)), "put") :
           opportunities = <<>>

\* C30: find_best_wheel_candidates returns at most max_results rows, every
\* row has annualized_return >= min_annual_return, the rows are in
\* descending annualized_return order, every ticker is among the first 20
\* rows of the ranked screening result, and the table is empty when
\* screening or comparison yields nothing.
C30_BestCandidatesBounded ==
    FindBestDone
    => /\ Returned
       /\ Len(result.value) <= args.max_results
       /\ \A i \in 1 .. Len(result.value) :
              ~Lt(result.value[i].annualized_return, args.min_annual_return)
       /\ \A i \in 1 .. Len(result.value) - 1 :
              ~Lt(result.value[i].annualized_return, result.value[i + 1].annualized_return)
       /\ \E screened \in screen_stocks(screening_criteria, <<>>) :
              \A i \in 1 .. Len(result.value) : result.value[i].ticker \in FirstRanked(screened)
       /\ (\A screened \in screen_stocks(screening_criteria, <<>>) : YieldsNothing(screened))
          => result.value = <<>>

====
